---- MODULE Spec2Model ----
(***************************************************************************)
(* Model of the control core of LiquidctlGUI (src/LiquidctlGUI.py): the    *)
(* poll tick (update_status), the safety-boost state machine, the curve    *)
(* controller, the slider handlers and the single-shot apply timers.       *)
(* Temperatures are whole degrees Celsius, time is in milliseconds.        *)
(* A device is selected in every state of the model (update_status returns *)
(* at once when none is).                                                  *)
(***************************************************************************)
EXTENDS Integers, Naturals, Sequences, FiniteSets, TLC

\* ---------------------------------------------------------------- bounds
\* Number of fan channels the device can report (the program starts at 6).
MaxFans == 2
\* The clock is sampled once per poll interval, MaxClockSteps times.
MaxClockSteps == 2

\* Largest duty and largest RPM the converters are called with.
MaxPercent == 120
MaxRpm == 3000

\* ------------------------------------------------------ program constants
\* Python's None, for temperatures, duties and RPM readings.
None == -1
\* User-override protection window (3 seconds), in milliseconds.
Window == 3000
\* Period of status_timer, in milliseconds.
PollInterval == 2500
min_fan_rpm == 200
max_fan_rpm == 2000
min_pump_rpm == 1000
max_pump_rpm == 2700

\* ------------------------------------------------------------ input sets
\* CPU temperatures returned by get_cpu_temp (None: sensor unavailable).
CpuTemps == {None, 80, 82, 85}
\* Coolant temperatures found in the device status.
WaterTemps == {None, 38, 45}
\* RPM readings of a fan and of the pump in the device status.
FanRpms == {800}
PumpRpms == {2700}
\* Raw slider positions the user drags a slider to.
UserValues == {52}
\* Tray presets offered by rebuild_tray_menu: a subset of (10,30,50,70,100).
TrayPresets == {50}
\* Values of the safety spin boxes the user chooses among.
CpuCrits == {85}
WaterCrits == {45}
Hystereses == {5}
\* The stored profile of the configuration file (fan_speeds, pump_speed).
Profile == [fan_speeds |-> <<50, 50>>, pump_speed |-> 50]
\* Control points of the curves (the defaults of load_json_config).
\* selected_device["description"] of the device selected at startup, and the
\* devices of the combo box.
description == "device"

Devices == {description, "other device"}

DefaultCpuCurve == << <<30, 20>>, <<60, 60>>, <<80, 100>> >>
DefaultWaterCurve == << <<30, 20>>, <<40, 60>>, <<50, 100>> >>

\* ---------------------------------------------------------------- state
VARIABLES
  fan_count,            \* self.fan_count
  fan_sliders,          \* values of self.fan_sliders
  fan_labels,           \* numbers shown in self.fan_percent_inline_labels
  pump_slider,          \* value of self.pump_slider
  pump_label,           \* number shown in self.pump_percent_inline
  user_set_fan_speeds,  \* index -> (pct, timestamp); (None, 0) when absent
  user_set_pump_speed,  \* (pct, timestamp); (None, 0) when None
  boost_active,         \* self._boost_active
  preboost,             \* self._preboost: <<>> is None, <<snapshot>> otherwise
  last_water_temp,      \* self._last_water_temp
  safety,               \* self.safety
  curves,               \* self.curves
  have_pump,            \* self.have_pump
  pump_supported,       \* self.pump_supported
  link_fans,            \* self.link_chk.isChecked()
  fan_timer,            \* self.fan_apply_timer is running
  pump_timer,           \* self.pump_apply_timer is running
  now,                  \* time.time()
  ev,                   \* what the last step did (observation only)
  call,                 \* the last call of a helper: name, arguments, result
  selected_device,      \* description of self.selected_device
  device_duty,          \* the duties in effect on each device
  workers               \* the apply threads started so far

vars == <<fan_count, fan_sliders, fan_labels, pump_slider, pump_label,
          user_set_fan_speeds, user_set_pump_speed, boost_active, preboost,
          last_water_temp, safety, curves, have_pump, pump_supported,
          link_fans, fan_timer, pump_timer, now, ev, call,
          selected_device, device_duty, workers>>

\* The device selection, the devices and the apply threads.
hardware == <<selected_device, device_duty, workers>>

\* ------------------------------------------------------------- helpers
Max(a, b) == IF a >= b THEN a ELSE b
Min(a, b) == IF a <= b THEN a ELSE b

\* Python round(n/d) for d > 0: nearest integer, ties to the even one.
PyRound(n, d) ==
  LET q == n \div d
      r == n % d
  IN  IF 2 * r < d THEN q
      ELSE IF 2 * r > d THEN q + 1
      ELSE IF q % 2 = 0 THEN q ELSE q + 1

\* round(value/10)*10
Round10(value) == PyRound(value, 10) * 10

\* mn and mx of the two converters.
min_rpm(is_pump) == IF is_pump THEN min_pump_rpm ELSE min_fan_rpm
max_rpm(is_pump) == IF is_pump THEN max_pump_rpm ELSE max_fan_rpm

\* A percent_to_rpm without the clamp at the low end of the range.
percent_to_rpm_unsaturated(percent, is_pump) ==
  LET mn == min_rpm(is_pump)
      mx == max_rpm(is_pump)
  IN  IF percent >= 100 THEN mx
      ELSE PyRound(80 * mn + (mx - mn) * (percent - 20), 8000) * 100

\* int(round((mn + (mx-mn)*(percent-20)/80)/100)*100)
percent_to_rpm(percent, is_pump) ==
  LET mn == min_rpm(is_pump)
      mx == max_rpm(is_pump)
  IN  IF percent <= 20 THEN mn
      ELSE IF percent >= 100 THEN mx
      ELSE PyRound(80 * mn + (mx - mn) * (percent - 20), 8000) * 100

\* An rpm_to_percent that cuts the duty down to the ten below instead of
\* rounding it.
rpm_to_percent_truncating(rpm, is_pump) ==
  LET mn == min_rpm(is_pump)
      mx == max_rpm(is_pump)
  IN  IF rpm <= mn THEN 20
      ELSE IF rpm >= mx THEN 100
      ELSE ((20 * (mx - mn) + 80 * (rpm - mn)) \div (10 * (mx - mn))) * 10

\* An rpm_to_percent whose upper clamp returns the lower duty.
rpm_to_percent_saturates_low(rpm, is_pump) ==
  LET mn == min_rpm(is_pump)
      mx == max_rpm(is_pump)
  IN  IF rpm <= mn THEN 20
      ELSE IF rpm >= mx THEN 20
      ELSE PyRound(20 * (mx - mn) + 80 * (rpm - mn), 10 * (mx - mn)) * 10

rpm_to_percent(rpm, is_pump) ==
  LET mn == IF is_pump THEN min_pump_rpm ELSE min_fan_rpm
      mx == IF is_pump THEN max_pump_rpm ELSE max_fan_rpm
  IN  IF rpm <= mn THEN 20
      ELSE IF rpm >= mx THEN 100
      ELSE PyRound(20 * (mx - mn) + 80 * (rpm - mn), 10 * (mx - mn)) * 10

PumpControllable == have_pump /\ pump_supported

\* The part of the state the handlers of one step read and write in turn.
Widgets ==
  [fan_count |-> fan_count, fan_sliders |-> fan_sliders,
   fan_labels |-> fan_labels, pump_slider |-> pump_slider,
   pump_label |-> pump_label, user_set_fan_speeds |-> user_set_fan_speeds,
   user_set_pump_speed |-> user_set_pump_speed,
   boost_active |-> boost_active, preboost |-> preboost,
   last_water_temp |-> last_water_temp,
   fan_timer |-> fan_timer, pump_timer |-> pump_timer]

\* The step ends with the widgets in state s.
Commit(s) ==
  /\ fan_count' = s.fan_count
  /\ fan_sliders' = s.fan_sliders
  /\ fan_labels' = s.fan_labels
  /\ pump_slider' = s.pump_slider
  /\ pump_label' = s.pump_label
  /\ user_set_fan_speeds' = s.user_set_fan_speeds
  /\ user_set_pump_speed' = s.user_set_pump_speed
  /\ boost_active' = s.boost_active
  /\ preboost' = s.preboost
  /\ last_water_temp' = s.last_water_temp
  /\ fan_timer' = s.fan_timer
  /\ pump_timer' = s.pump_timer

NoUser == [pct |-> None, ts |-> 0]

\* No helper has been called yet.
NoCall == [op |-> "none"]

\* The observation of a step: whether it was a poll tick that entered or
\* left the boost or ran the curve controller, and the duties it handed to
\* a worker thread for the device (<<>> and None: nothing handed over).
NoEvent ==
  [entered |-> FALSE, left |-> FALSE, curve_ran |-> FALSE,
   sent_fans |-> <<>>, sent_pump |-> None]

\* ------------------------------------------------------- slider handlers
adjust_all_fans(s, value) ==
  LET pct == Round10(value)
      n == Len(s.fan_sliders)
  IN  [s EXCEPT
         !.fan_sliders = [i \in 1..n |-> pct],
         !.fan_labels = [i \in 1..Len(s.fan_labels) |->
                           IF i <= n THEN pct ELSE s.fan_labels[i]],
         !.user_set_fan_speeds = [i \in DOMAIN s.user_set_fan_speeds |->
                           IF i <= n THEN [pct |-> pct, ts |-> now]
                           ELSE s.user_set_fan_speeds[i]],
         !.fan_timer = TRUE]

adjust_fan_speed(s, fan_id, value) ==
  LET pct == Round10(value)
  IN  IF link_fans THEN adjust_all_fans(s, pct)
      ELSE [s EXCEPT
              !.fan_sliders[fan_id] = pct,
              !.fan_labels[fan_id] = pct,
              !.user_set_fan_speeds[fan_id] = [pct |-> pct, ts |-> now],
              !.fan_timer = TRUE]

adjust_pump_speed(s, value) ==
  LET pct == Round10(value)
  IN  [s EXCEPT
         !.pump_slider = pct,
         !.pump_label = pct,
         !.user_set_pump_speed = [pct |-> pct, ts |-> now],
         !.pump_timer = IF PumpControllable THEN TRUE ELSE @]

\* self.pump_slider.setValue(v) with the slider's signals not blocked:
\* valueChanged, connected to adjust_pump_speed, is emitted when the value
\* changes.
pump_slider_setValue(s, v) ==
  IF v = s.pump_slider THEN s
  ELSE adjust_pump_speed([s EXCEPT !.pump_slider = v], v)

\* Fresh slider rows: a new QSlider holds 0 and its label reads "0 %".
add_fan_controls(s, count) ==
  [s EXCEPT !.fan_sliders = [i \in 1..count |-> 0],
            !.fan_labels = [i \in 1..count |-> 0]]

\* ------------------------------------------------------------ UI refresh
\* fan_map: index -> <<pct, rpm>>; pump: <<pct, rpm>> or <<>> for None.
update_ui_from_maps(s, fan_map, pump, water_temp) ==
  LET max_idx == CHOOSE m \in DOMAIN fan_map : \A k \in DOMAIN fan_map : k <= m
      s1 == IF DOMAIN fan_map # {} /\ max_idx # s.fan_count
            THEN add_fan_controls([s EXCEPT !.fan_count = max_idx], max_idx)
            ELSE s
      writes(i) == /\ i \in DOMAIN fan_map
                   /\ LET u == s1.user_set_fan_speeds[i]
                      IN  u.pct = None \/ now - u.ts > Window
      fans == [i \in 1..s1.fan_count |->
                 IF writes(i) THEN fan_map[i][1] ELSE s1.fan_sliders[i]]
      labels == [i \in 1..s1.fan_count |->
                 IF writes(i) THEN fan_map[i][1] ELSE s1.fan_labels[i]]
      p == s1.user_set_pump_speed
      pump_writes == /\ PumpControllable /\ pump # <<>>
                     /\ (p.pct = None \/ now - p.ts > Window)
  IN  [s1 EXCEPT
         !.fan_sliders = fans,
         !.fan_labels = labels,
         !.pump_slider = IF pump_writes THEN pump[1] ELSE @,
         !.pump_label = IF pump_writes THEN pump[1] ELSE @,
         !.last_water_temp = water_temp]

\* ----------------------------------------------------------- safety boost
\* A restore that forgets to discard the snapshot.
restore_keeps_snapshot(s) ==
  IF s.preboost = <<>> THEN [s EXCEPT !.boost_active = FALSE]
  ELSE
    LET pre == s.preboost[1]
        n == Len(s.fan_sliders)
        s1 == [s EXCEPT
                 !.fan_sliders = [i \in 1..n |->
                     IF i <= Len(pre.fans) THEN pre.fans[i] ELSE s.fan_sliders[i]],
                 !.fan_labels = [i \in 1..n |->
                     IF i <= Len(pre.fans) THEN pre.fans[i] ELSE s.fan_labels[i]],
                 !.fan_timer = TRUE]
        s2 == IF PumpControllable
              THEN [pump_slider_setValue(s1, pre.pump) EXCEPT
                      !.pump_label = pre.pump, !.pump_timer = TRUE]
              ELSE s1
    IN  [s2 EXCEPT !.boost_active = FALSE]

restore_from_boost(s) ==
  IF s.preboost = <<>> THEN [s EXCEPT !.boost_active = FALSE]
  ELSE
    LET pre == s.preboost[1]
        n == Len(s.fan_sliders)
        s1 == [s EXCEPT
                 !.fan_sliders = [i \in 1..n |->
                     IF i <= Len(pre.fans) THEN pre.fans[i] ELSE s.fan_sliders[i]],
                 !.fan_labels = [i \in 1..n |->
                     IF i <= Len(pre.fans) THEN pre.fans[i] ELSE s.fan_labels[i]],
                 !.fan_timer = TRUE]
        s2 == IF PumpControllable
              THEN [pump_slider_setValue(s1, pre.pump) EXCEPT
                      !.pump_label = pre.pump, !.pump_timer = TRUE]
              ELSE s1
    IN  [s2 EXCEPT !.boost_active = FALSE, !.preboost = <<>>]

\* A safety check that leaves the boost as soon as no temperature is over
\* its threshold, without the hysteresis margin.
check_safety_boost_no_hysteresis(s, cpu_temp, water_temp) ==
  IF ~safety.enabled
  THEN IF s.boost_active THEN restore_from_boost(s) ELSE s
  ELSE
    LET over == \/ cpu_temp # None /\ cpu_temp >= safety.cpu_crit
                \/ water_temp # None /\ water_temp >= safety.water_crit
    IN  IF over /\ ~s.boost_active
        THEN LET s1 == [s EXCEPT !.preboost =
                          << [fans |-> s.fan_sliders, pump |-> s.pump_slider] >>]
                 s2 == adjust_all_fans(s1, 100)
                 s3 == IF PumpControllable
                       THEN [pump_slider_setValue(s2, 100) EXCEPT
                               !.pump_label = 100, !.pump_timer = TRUE]
                       ELSE s2
             IN  [s3 EXCEPT !.boost_active = TRUE]
        ELSE IF s.boost_active /\ ~over
             THEN restore_from_boost(s)
             ELSE s

check_safety_boost(s, cpu_temp, water_temp) ==
  IF ~safety.enabled
  THEN IF s.boost_active THEN restore_from_boost(s) ELSE s
  ELSE
    LET over == \/ cpu_temp # None /\ cpu_temp >= safety.cpu_crit
                \/ water_temp # None /\ water_temp >= safety.water_crit
        h == safety.hysteresis
        below_cpu == cpu_temp = None \/ cpu_temp <= safety.cpu_crit - h
        below_wat == water_temp = None \/ water_temp <= safety.water_crit - h
    IN  IF over /\ ~s.boost_active
        THEN LET s1 == [s EXCEPT !.preboost =
                          << [fans |-> s.fan_sliders, pump |-> s.pump_slider] >>]
                 s2 == adjust_all_fans(s1, 100)
                 s3 == IF PumpControllable
                       THEN [pump_slider_setValue(s2, 100) EXCEPT
                               !.pump_label = 100, !.pump_timer = TRUE]
                       ELSE s2
             IN  [s3 EXCEPT !.boost_active = TRUE]
        ELSE IF s.boost_active /\ ~over /\ below_cpu /\ below_wat
             THEN restore_from_boost(s)
             ELSE s

\* ------------------------------------------------------- curve controller
\* sorted(points, key=lambda x: x[0]): stable, by temperature.
RECURSIVE InsertByTemp(_, _)
InsertByTemp(pts, pt) ==
  IF pts = <<>> THEN <<pt>>
  ELSE IF pt[1] < Head(pts)[1] THEN <<pt>> \o pts
  ELSE <<Head(pts)>> \o InsertByTemp(Tail(pts), pt)

RECURSIVE SortedByTemp(_)
SortedByTemp(points) ==
  IF points = <<>> THEN <<>>
  ELSE InsertByTemp(SortedByTemp(SubSeq(points, 1, Len(points) - 1)),
                    points[Len(points)])

\* A curve evaluation without the lower clamp: a temperature below the first
\* point falls through the segment scan.
curve_value_no_low_clamp(points, temp) ==
  LET pts == SortedByTemp(points)
      n == Len(pts)
      segs == {i \in 1..(n - 1) : pts[i][1] <= temp /\ temp <= pts[i + 1][1]}
      i == CHOOSE k \in segs : \A j \in segs : k <= j
      t1 == pts[i][1]
      p1 == pts[i][2]
      t2 == pts[i + 1][1]
      p2 == pts[i + 1][2]
  IN  IF n = 0 THEN 0
      ELSE IF temp >= pts[n][1] THEN pts[n][2]
      ELSE IF segs = {} THEN pts[n][2]
      ELSE IF t2 = t1 THEN p2
      ELSE PyRound(p1 * (t2 - t1) + (temp - t1) * (p2 - p1), t2 - t1)

curve_value(points, temp) ==
  LET pts == SortedByTemp(points)
      n == Len(pts)
      segs == {i \in 1..(n - 1) : pts[i][1] <= temp /\ temp <= pts[i + 1][1]}
      i == CHOOSE k \in segs : \A j \in segs : k <= j
      t1 == pts[i][1]
      p1 == pts[i][2]
      t2 == pts[i + 1][1]
      p2 == pts[i + 1][2]
  IN  IF n = 0 THEN 0
      ELSE IF temp <= pts[1][1] THEN pts[1][2]
      ELSE IF temp >= pts[n][1] THEN pts[n][2]
      ELSE IF segs = {} THEN pts[n][2]
      ELSE IF t2 = t1 THEN p2
      ELSE PyRound(p1 * (t2 - t1) + (temp - t1) * (p2 - p1), t2 - t1)

\* A curve controller that runs whenever curves are enabled, boosted or not.
curve_controller_ignores_boost(s) == curves.enabled

\* A curve controller guarded by the boost state the tick started in.
curve_controller_runs_before_check(s) == curves.enabled /\ ~boost_active

\* The condition under which update_status runs the curve controller.
curve_controller_runs(s) == curves.enabled /\ ~s.boost_active

\* A target that follows the CPU curve alone.
curve_target_cpu_only(ct, water_temp) ==
  IF ct # None THEN Max(0, Min(100, curve_value(curves.cpu, ct))) ELSE 0

curve_target(ct, water_temp) ==
  LET t1 == IF ct # None THEN Max(0, curve_value(curves.cpu, ct)) ELSE 0
      t2 == IF water_temp # None
            THEN Max(t1, curve_value(curves.water, water_temp)) ELSE t1
  IN  Max(0, Min(100, t2))

curve_controller(s, ct) ==
  LET target == curve_target(ct, s.last_water_temp)
      s1 == adjust_all_fans(s, target)
  IN  IF PumpControllable /\ curves.apply_pump
      THEN [pump_slider_setValue(s1, target) EXCEPT
              !.pump_label = target, !.pump_timer = TRUE]
      ELSE s1

\* -------------------------------------------------------------- poll tick
\* What the parsers hand to _update_ui_from_maps for a status with the
\* given RPM readings.
parsed_fan_map(fans) ==
  [i \in DOMAIN fans |-> <<rpm_to_percent(fans[i], FALSE), fans[i]>>]

parsed_pump(rpm) ==
  IF rpm = None THEN <<>> ELSE <<rpm_to_percent(rpm, TRUE), rpm>>

\* Outcomes of the status read: it fails (both calls raise), or it is
\* parsed into fan readings, a pump reading and a coolant temperature.
\* The status reports the fans 1..k, for some k (none when k = 0).
FanReadings == UNION {[1..k -> FanRpms] : k \in 0..MaxFans}

\* A device with a pump reports its speed.
StatusOutcomes ==
  {[parsed |-> FALSE, fans |-> <<>>, pump |-> None, water |-> None]}
  \cup [parsed : {TRUE}, fans : FanReadings,
        pump : IF have_pump THEN PumpRpms ELSE {None}, water : WaterTemps]

\* One poll tick in which get_cpu_temp returns ct and the status read has
\* the outcome st.
update_status_with(ct, st) ==
    LET s0 == Widgets
        s1 == IF st.parsed
              THEN update_ui_from_maps(s0, parsed_fan_map(st.fans),
                                       parsed_pump(st.pump), st.water)
              ELSE s0
        s2 == IF st.parsed
              THEN check_safety_boost(s1, ct, s1.last_water_temp)
              ELSE s1
        runs == curve_controller_runs(s2)
        s3 == IF runs THEN curve_controller(s2, ct) ELSE s2
    IN  /\ Commit(s3)
        /\ ev' = [NoEvent EXCEPT
                    !.entered = ~boost_active /\ s2.boost_active,
                    !.left = boost_active /\ ~s2.boost_active,
                    !.curve_ran = runs]
        /\ UNCHANGED <<safety, curves, have_pump, pump_supported, link_fans, now, call, hardware>>

update_status ==
  \E ct \in CpuTemps, st \in StatusOutcomes : update_status_with(ct, st)

\* ------------------------------------------------------------ user steps
Static == <<safety, curves, have_pump, pump_supported, link_fans, now, call, hardware>>

\* The user drags the slider of fan fan_id to value v.
UserFanSlider ==
  \E fan_id \in 1..fan_count, v \in UserValues :
    /\ v # fan_sliders[fan_id]
    /\ Commit(adjust_fan_speed(Widgets, fan_id, v))
    /\ ev' = NoEvent
    /\ UNCHANGED Static

\* The user picks "All fans pct%" in the tray menu.
TrayAllFans ==
  \E pct \in TrayPresets :
    /\ Commit(adjust_all_fans(Widgets, pct))
    /\ ev' = NoEvent
    /\ UNCHANGED Static

\* The user drags the pump slider (the pump row is visible).
UserPumpSlider ==
  \E v \in UserValues :
    /\ PumpControllable
    /\ v # pump_slider
    /\ Commit(adjust_pump_speed(Widgets, v))
    /\ ev' = NoEvent
    /\ UNCHANGED Static

apply_profile_and_update_ui ==
  LET fs == Profile.fan_speeds
      k == Min(fan_count, Len(fs))
      s == Widgets
  IN  /\ Commit([s EXCEPT
           !.fan_sliders = [i \in 1..Len(s.fan_sliders) |->
                              IF i <= k THEN fs[i] ELSE s.fan_sliders[i]],
           !.fan_labels = [i \in 1..Len(s.fan_labels) |->
                              IF i <= k THEN fs[i] ELSE s.fan_labels[i]],
           !.user_set_fan_speeds = [i \in DOMAIN s.user_set_fan_speeds |->
                              IF i <= k THEN [pct |-> fs[i], ts |-> now]
                              ELSE s.user_set_fan_speeds[i]],
           !.pump_slider = Profile.pump_speed,
           !.pump_label = Profile.pump_speed,
           !.user_set_pump_speed = [pct |-> Profile.pump_speed, ts |-> now],
           !.fan_timer = TRUE,
           !.pump_timer = IF PumpControllable THEN TRUE ELSE @])
      /\ ev' = NoEvent
      /\ UNCHANGED Static

\* _save_safety: the user changes a control of the Safety group.
save_safety ==
  \E e \in BOOLEAN, c \in CpuCrits, w \in WaterCrits, h \in Hystereses :
    LET new == [enabled |-> e, cpu_crit |-> c, water_crit |-> w, hysteresis |-> h]
    IN  /\ new # safety
        /\ safety' = new
        /\ ev' = NoEvent
        /\ UNCHANGED <<fan_count, fan_sliders, fan_labels, pump_slider,
                       pump_label, user_set_fan_speeds, user_set_pump_speed,
                       boost_active, preboost, last_water_temp, curves,
                       have_pump, pump_supported, link_fans, fan_timer,
                       pump_timer, now, call, hardware>>

\* open_curves_dialog, saved: the user sets the "enabled" check box and
\* leaves the pump check box and the control points as they are.
open_curves_dialog ==
  \E e \in BOOLEAN :
    /\ curves' = [curves EXCEPT !.enabled = e]
    /\ curves' # curves
    /\ ev' = NoEvent
    /\ UNCHANGED <<fan_count, fan_sliders, fan_labels, pump_slider,
                   pump_label, user_set_fan_speeds, user_set_pump_speed,
                   boost_active, preboost, last_water_temp, safety,
                   have_pump, pump_supported, link_fans, fan_timer,
                   pump_timer, now, call, hardware>>

\* The user toggles "Link fans".
ToggleLink ==
  /\ link_fans' = ~link_fans
  /\ ev' = NoEvent
  /\ UNCHANGED <<fan_count, fan_sliders, fan_labels, pump_slider,
                 pump_label, user_set_fan_speeds, user_set_pump_speed,
                 boost_active, preboost, last_water_temp, safety, curves,
                 have_pump, pump_supported, fan_timer, pump_timer, now, call, hardware>>

\* --------------------------------------------------------- apply timers
\* A fan apply timer that is not single-shot: it stays armed after it fired.
apply_all_fan_speeds_repeating ==
  /\ fan_timer
  /\ fan_timer' = fan_timer
  /\ ev' = [NoEvent EXCEPT !.sent_fans = fan_sliders]
  /\ UNCHANGED <<fan_count, fan_sliders, fan_labels, pump_slider,
                 pump_label, user_set_fan_speeds, user_set_pump_speed,
                 boost_active, preboost, last_water_temp, safety, curves,
                 have_pump, pump_supported, link_fans, pump_timer, now, call,
                 hardware>>

\* fan_apply_timer fires: one worker is handed the slider values.
apply_all_fan_speeds ==
  /\ fan_timer
  /\ fan_timer' = FALSE
  /\ ev' = [NoEvent EXCEPT !.sent_fans = fan_sliders]
  /\ UNCHANGED <<fan_count, fan_sliders, fan_labels, pump_slider,
                 pump_label, user_set_fan_speeds, user_set_pump_speed,
                 boost_active, preboost, last_water_temp, safety, curves,
                 have_pump, pump_supported, link_fans, pump_timer, now, call, hardware>>

\* pump_apply_timer fires: a worker is handed the recorded pump duty, if any.
apply_pump_speed ==
  /\ pump_timer
  /\ pump_timer' = FALSE
  /\ ev' = [NoEvent EXCEPT
              !.sent_pump = IF user_set_pump_speed.pct # None /\ PumpControllable
                            THEN user_set_pump_speed.pct ELSE None]
  /\ UNCHANGED <<fan_count, fan_sliders, fan_labels, pump_slider,
                 pump_label, user_set_fan_speeds, user_set_pump_speed,
                 boost_active, preboost, last_water_temp, safety, curves,
                 have_pump, pump_supported, link_fans, fan_timer, now, call, hardware>>

\* ----------------------------------------------------------------- clock
AdvanceTime ==
  /\ now < MaxClockSteps * PollInterval
  /\ now' = now + PollInterval
  /\ ev' = NoEvent
  /\ UNCHANGED <<fan_count, fan_sliders, fan_labels, pump_slider,
                 pump_label, user_set_fan_speeds, user_set_pump_speed,
                 boost_active, preboost, last_water_temp, safety, curves,
                 have_pump, pump_supported, link_fans, fan_timer, pump_timer,
                 call, hardware>>

\* ---------------------------------------------------------- specification
\* The state __init__ leaves when its first status read failed: fresh
\* sliders, no user record, safety and curves as configured.
Init ==
  /\ fan_count = MaxFans
  /\ fan_sliders = [i \in 1..MaxFans |-> 0]
  /\ fan_labels = [i \in 1..MaxFans |-> 0]
  /\ pump_slider = 0
  /\ pump_label = 0
  /\ user_set_fan_speeds = [i \in 1..MaxFans |-> NoUser]
  /\ user_set_pump_speed = NoUser
  /\ boost_active = FALSE
  /\ preboost = <<>>
  /\ last_water_temp = None
  /\ safety \in [enabled : BOOLEAN, cpu_crit : CpuCrits,
                 water_crit : WaterCrits, hysteresis : Hystereses]
  /\ curves = [enabled |-> FALSE, apply_pump |-> TRUE,
               cpu |-> DefaultCpuCurve, water |-> DefaultWaterCurve]
  /\ have_pump \in BOOLEAN
  /\ pump_supported = have_pump
  /\ link_fans = FALSE
  /\ fan_timer = FALSE
  /\ pump_timer = FALSE
  /\ now = 0
  /\ ev = NoEvent
  /\ call = NoCall
  /\ selected_device = description
  /\ device_duty = [d \in Devices |->
                      [fans |-> [i \in 1..MaxFans |-> 0], pump |-> 0]]
  /\ workers = <<>>

Next ==
  \/ update_status
  \/ UserFanSlider
  \/ TrayAllFans
  \/ UserPumpSlider
  \/ apply_profile_and_update_ui
  \/ save_safety
  \/ open_curves_dialog
  \/ ToggleLink
  \/ apply_all_fan_speeds
  \/ apply_pump_speed
  \/ AdvanceTime

Spec == Init /\ [][Next]_vars

\* The controllers under every user input, at one instant and with the
\* apply timers left pending: the poll tick, the sliders, the tray, the
\* profile, the link box and the two settings dialogs.
NextControl ==
  \/ update_status
  \/ UserFanSlider
  \/ TrayAllFans
  \/ UserPumpSlider
  \/ apply_profile_and_update_ui
  \/ save_safety
  \/ open_curves_dialog
  \/ ToggleLink

SpecControl == Init /\ [][NextControl]_vars

\* The path from the pump slider to the device, with the clock running:
\* the poll tick, the pump slider and the firing of the apply timers.
NextApply ==
  \/ update_status
  \/ UserPumpSlider
  \/ apply_all_fan_speeds
  \/ apply_pump_speed
  \/ AdvanceTime

SpecApply == Init /\ [][NextApply]_vars

\* open_curves_dialog, saved: the user sets the "Enable" and the "Apply to
\* pump" check boxes and leaves the control points as they are.
get_curves ==
  \E e \in BOOLEAN, ap \in BOOLEAN :
    /\ curves' = [curves EXCEPT !.enabled = e, !.apply_pump = ap]
    /\ curves' # curves
    /\ ev' = NoEvent
    /\ UNCHANGED <<fan_count, fan_sliders, fan_labels, pump_slider,
                   pump_label, user_set_fan_speeds, user_set_pump_speed,
                   boost_active, preboost, last_water_temp, safety,
                   have_pump, pump_supported, link_fans, fan_timer,
                   pump_timer, now, call, hardware>>

\* The curve controller at one instant: the poll tick, the curves dialog
\* with both check boxes and the pump slider.
NextCurves ==
  \/ update_status
  \/ get_curves
  \/ UserPumpSlider

SpecCurves == Init /\ [][NextCurves]_vars

\* The debounce of the fan duties: the fan sliders, the tray, the link box,
\* the clock and the firing of fan_apply_timer.  The timer is single-shot
\* with a delay of 400 ms at most and the event loop runs it once the
\* changes pause, so a pending timer fires.
NextDebounce ==
  \/ UserFanSlider
  \/ TrayAllFans
  \/ ToggleLink
  \/ AdvanceTime
  \/ apply_all_fan_speeds

SpecDebounce ==
  Init /\ [][NextDebounce]_vars /\ WF_vars(apply_all_fan_speeds)

\* ------------------------------------------------------------ converters
\* Every variable but call.
gui == <<fan_count, fan_sliders, fan_labels, pump_slider, pump_label,
         user_set_fan_speeds, user_set_pump_speed, boost_active, preboost,
         last_water_temp, safety, curves, have_pump, pump_supported,
         link_fans, fan_timer, pump_timer, now, ev, hardware>>

Percents == 0..MaxPercent
Rpms == 0..MaxRpm

\* One call of a converter on a fan (is_pump FALSE) or on the pump.
ConverterCall(op, arg, is_pump, result) ==
  [op |-> op, arg |-> arg, is_pump |-> is_pump, result |-> result]

percent_to_rpm_call ==
  \E percent \in Percents, is_pump \in BOOLEAN :
    /\ call = NoCall
    /\ call' = ConverterCall("percent_to_rpm", percent, is_pump,
                             percent_to_rpm(percent, is_pump))
    /\ UNCHANGED gui

rpm_to_percent_call ==
  \E rpm \in Rpms, is_pump \in BOOLEAN :
    /\ call = NoCall
    /\ call' = ConverterCall("rpm_to_percent", rpm, is_pump,
                             rpm_to_percent(rpm, is_pump))
    /\ UNCHANGED gui

\* A duty shown as RPM by a slider handler and read back by the parser.
round_trip_call ==
  \E percent \in Percents, is_pump \in BOOLEAN :
    /\ call = NoCall
    /\ call' = ConverterCall("round_trip", percent, is_pump,
                  rpm_to_percent(percent_to_rpm(percent, is_pump), is_pump))
    /\ UNCHANGED gui

NextConvert ==
  \/ percent_to_rpm_call
  \/ rpm_to_percent_call
  \/ round_trip_call

SpecConvert == Init /\ [][NextConvert]_vars

\* ---------------------------------------------------------------------------
\* The curve evaluation as a function of the three control points the curves
\* dialog stores (temperature 0..110, duty 0..100, in any order) and a
\* temperature.
\* ---------------------------------------------------------------------------
CurveTemps == {30, 40, 50}
CurveDuties == {20, 60, 100}
CurvePoints == {<<t, p>> : t \in CurveTemps, p \in CurveDuties}
ProbeTemps == {25, 30, 35, 40, 45, 50, 55}

curve_value_call ==
  \E pt1 \in CurvePoints, pt2 \in CurvePoints, pt3 \in CurvePoints,
     temp \in ProbeTemps :
    /\ call = NoCall
    /\ call' = [op |-> "curve_value", points |-> <<pt1, pt2, pt3>>,
                arg |-> temp,
                result |-> curve_value(<<pt1, pt2, pt3>>, temp)]
    /\ UNCHANGED gui

NextCurve == curve_value_call

SpecCurve == Init /\ [][NextCurve]_vars

\* ---------------------------------------------------------------------------
\* Status text.  A string is a sequence of one-character strings, so that
\* str.lower, str.strip and the regular expressions of the parsers are
\* computed character by character.  A float is held in tenths (31.5 is
\* 315): the texts and values below have at most one fractional digit.
\* ---------------------------------------------------------------------------
Digits == {"0", "1", "2", "3", "4", "5", "6", "7", "8", "9"}

Whitespace == {" ", "\t"}

DigitValue(c) ==
  CASE c = "0" -> 0 [] c = "1" -> 1 [] c = "2" -> 2 [] c = "3" -> 3
    [] c = "4" -> 4 [] c = "5" -> 5 [] c = "6" -> 6 [] c = "7" -> 7
    [] c = "8" -> 8 [] c = "9" -> 9

Uppercase ==
  ("A" :> "a") @@ ("C" :> "c") @@ ("D" :> "d") @@ ("F" :> "f") @@
  ("L" :> "l") @@ ("M" :> "m") @@ ("N" :> "n") @@ ("P" :> "p") @@
  ("R" :> "r") @@ ("S" :> "s") @@ ("T" :> "t") @@ ("W" :> "w")

\* str.lower
lower(s) ==
  [i \in 1..Len(s) |-> IF s[i] \in DOMAIN Uppercase THEN Uppercase[s[i]]
                       ELSE s[i]]

\* str.strip
strip(s) ==
  LET kept == {i \in 1..Len(s) : s[i] \notin Whitespace}
      first == CHOOSE i \in kept : \A j \in kept : i <= j
      last == CHOOSE i \in kept : \A j \in kept : j <= i
  IN  IF kept = {} THEN <<>> ELSE SubSeq(s, first, last)

\* int(s) for a string of digits.
RECURSIVE int_of(_)
int_of(s) ==
  IF s = <<>> THEN 0
  ELSE 10 * int_of(SubSeq(s, 1, Len(s) - 1)) + DigitValue(s[Len(s)])

\* float(s): ok is FALSE where Python raises ValueError, and value is the
\* number in tenths otherwise.
float_of(s) ==
  LET dots == {i \in 1..Len(s) : s[i] = "."}
      dot == CHOOSE i \in dots : TRUE
      whole == IF dots = {} THEN s ELSE SubSeq(s, 1, dot - 1)
      frac == IF dots = {} THEN <<>> ELSE SubSeq(s, dot + 1, Len(s))
      valid == /\ \A i \in 1..Len(s) : s[i] \in Digits \cup {"."}
               /\ Cardinality(dots) <= 1
               /\ Len(s) > Cardinality(dots)
  IN  IF ~valid THEN [ok |-> FALSE, value |-> 0]
      ELSE [ok |-> TRUE,
            value |-> 10 * int_of(whole)
                      + (IF frac = <<>> THEN 0 ELSE DigitValue(frac[1]))]

\* The literal w stands in s at position p.
LiteralAt(s, p, w) ==
  /\ p + Len(w) - 1 <= Len(s)
  /\ SubSeq(s, p, p + Len(w) - 1) = w

\* The position after the longest run of characters of class that starts at
\* p: what a greedy \s*, \d+ or [\d.]+ consumes.  In the three expressions
\* below the element that follows such a run never matches a character of
\* the run, so giving characters back cannot turn a failure into a match.
RunEnd(s, p, class) ==
  CHOOSE q \in p..(Len(s) + 1) :
    /\ \A i \in p..(q - 1) : s[i] \in class
    /\ q = Len(s) + 1 \/ s[q] \notin class

\* What re.search gives when nothing matches.
NoMatch == [ok |-> FALSE, g1 |-> <<>>, g2 |-> <<>>]

\* fan\s*(?:speed)?\s*(\d+)\s+(\d+)\s*rpm matched at position a: the spans
\* of the two groups, ok FALSE when there is no match at a.
FanMatchAt(s, a) ==
  LET p1 == RunEnd(s, a + 3, Whitespace)
      p2 == IF LiteralAt(s, p1, <<"s", "p", "e", "e", "d">>) THEN p1 + 5 ELSE p1
      p3 == RunEnd(s, p2, Whitespace)
      p4 == RunEnd(s, p3, Digits)
      p5 == RunEnd(s, p4, Whitespace)
      p6 == RunEnd(s, p5, Digits)
      p7 == RunEnd(s, p6, Whitespace)
  IN  IF /\ LiteralAt(s, a, <<"f", "a", "n">>)
         /\ p4 > p3 /\ p5 > p4 /\ p6 > p5
         /\ LiteralAt(s, p7, <<"r", "p", "m">>)
      THEN [ok |-> TRUE, g1 |-> SubSeq(s, p3, p4 - 1),
            g2 |-> SubSeq(s, p5, p6 - 1)]
      ELSE NoMatch

\* pump\s*(?:speed)?\s*(\d+)\s*rpm matched at position a.
PumpMatchAt(s, a) ==
  LET p1 == RunEnd(s, a + 4, Whitespace)
      p2 == IF LiteralAt(s, p1, <<"s", "p", "e", "e", "d">>) THEN p1 + 5 ELSE p1
      p3 == RunEnd(s, p2, Whitespace)
      p4 == RunEnd(s, p3, Digits)
      p5 == RunEnd(s, p4, Whitespace)
  IN  IF /\ LiteralAt(s, a, <<"p", "u", "m", "p">>)
         /\ p4 > p3
         /\ LiteralAt(s, p5, <<"r", "p", "m">>)
      THEN [ok |-> TRUE, g1 |-> SubSeq(s, p3, p4 - 1), g2 |-> <<>>]
      ELSE NoMatch

Coolants ==
  {<<"w", "a", "t", "e", "r">>,
   <<"l", "i", "q", "u", "i", "d">>,
   <<"c", "o", "o", "l", "a", "n", "t">>}

\* (water|liquid|coolant)\s*temperature\s+([\d.]+)\s*°?c matched at a; g2
\* is the second group.
WaterMatchAt(s, a) ==
  LET names == {w \in Coolants : LiteralAt(s, a, w)}
      name == CHOOSE w \in names : TRUE
      p1 == RunEnd(s, a + Len(name), Whitespace)
      p2 == p1 + 11
      p3 == RunEnd(s, p2, Whitespace)
      p4 == RunEnd(s, p3, Digits \cup {"."})
      p5 == RunEnd(s, p4, Whitespace)
      p6 == IF LiteralAt(s, p5, <<"°">>) THEN p5 + 1 ELSE p5
  IN  IF /\ names /= {}
         /\ LiteralAt(s, p1, <<"t", "e", "m", "p", "e", "r", "a", "t", "u", "r", "e">>)
         /\ p3 > p2 /\ p4 > p3
         /\ LiteralAt(s, p6, <<"c">>)
      THEN [ok |-> TRUE, g1 |-> name, g2 |-> SubSeq(s, p3, p4 - 1)]
      ELSE NoMatch

\* fan\s*(?:speed)?\s*(\d+), the expression applied to a telemetry key.
FanKeyMatchAt(s, a) ==
  LET p1 == RunEnd(s, a + 3, Whitespace)
      p2 == IF LiteralAt(s, p1, <<"s", "p", "e", "e", "d">>) THEN p1 + 5 ELSE p1
      p3 == RunEnd(s, p2, Whitespace)
      p4 == RunEnd(s, p3, Digits)
  IN  IF LiteralAt(s, a, <<"f", "a", "n">>) /\ p4 > p3
      THEN [ok |-> TRUE, g1 |-> SubSeq(s, p3, p4 - 1), g2 |-> <<>>]
      ELSE NoMatch

\* re.search tries the positions from left to right.
Leftmost(starts) == CHOOSE i \in starts : \A j \in starts : i <= j

\* re.search(r'fan\s*(?:speed)?\s*(\d+)\s+(\d+)\s*rpm', s)
fan_search(s) ==
  LET starts == {a \in 1..Len(s) : FanMatchAt(s, a).ok}
  IN  IF starts = {} THEN NoMatch ELSE FanMatchAt(s, Leftmost(starts))

\* re.search(r'pump\s*(?:speed)?\s*(\d+)\s*rpm', s)
pump_search(s) ==
  LET starts == {a \in 1..Len(s) : PumpMatchAt(s, a).ok}
  IN  IF starts = {} THEN NoMatch ELSE PumpMatchAt(s, Leftmost(starts))

\* re.search(r'(water|liquid|coolant)\s*temperature\s+([\d.]+)\s*°?c', s)
water_search(s) ==
  LET starts == {a \in 1..Len(s) : WaterMatchAt(s, a).ok}
  IN  IF starts = {} THEN NoMatch ELSE WaterMatchAt(s, Leftmost(starts))

\* re.search(r'fan\s*(?:speed)?\s*(\d+)', s)
fan_key_search(s) ==
  LET starts == {a \in 1..Len(s) : FanKeyMatchAt(s, a).ok}
  IN  IF starts = {} THEN NoMatch ELSE FanKeyMatchAt(s, Leftmost(starts))

\* w in s
contains(s, w) == \E a \in 1..Len(s) : LiteralAt(s, a, w)

\* What a parser hands to _update_ui_from_maps.
NoReadings == [fan_map |-> <<>>, pump |-> <<>>, wtemp |-> None]

\* fan_map[idx] = reading
dict_set(d, k, v) == [i \in DOMAIN d \cup {k} |-> IF i = k THEN v ELSE d[i]]

\* One iteration of the loop of _parse_text_and_update.
parse_text_line(acc, line) ==
  LET l == lower(strip(line))
      mf == fan_search(l)
      mp == pump_search(l)
      mw == water_search(l)
      wt == float_of(mw.g2)
  IN  IF mf.ok
      THEN [acc EXCEPT !.fan_map =
              dict_set(@, int_of(mf.g1),
                       <<rpm_to_percent(int_of(mf.g2), FALSE), int_of(mf.g2)>>)]
      ELSE IF mp.ok
      THEN [acc EXCEPT !.pump =
              <<rpm_to_percent(int_of(mp.g1), TRUE), int_of(mp.g1)>>]
      ELSE IF mw.ok /\ wt.ok
      THEN [acc EXCEPT !.wtemp = wt.value]
      ELSE acc

\* str.splitlines
RECURSIVE splitlines(_)
splitlines(s) ==
  LET breaks == {i \in 1..Len(s) : s[i] = "\n"}
      b == CHOOSE i \in breaks : \A j \in breaks : i <= j
  IN  IF s = <<>> THEN <<>>
      ELSE IF breaks = {} THEN <<s>>
      ELSE <<SubSeq(s, 1, b - 1)>> \o splitlines(SubSeq(s, b + 1, Len(s)))

\* The loop of _parse_text_and_update over the lines.
RECURSIVE parse_text_lines(_)
parse_text_lines(lines) ==
  IF lines = <<>> THEN NoReadings
  ELSE parse_text_line(parse_text_lines(SubSeq(lines, 1, Len(lines) - 1)),
                       lines[Len(lines)])

\* _parse_text_and_update up to its call of _update_ui_from_maps.
parse_text_and_update(txt) == parse_text_lines(splitlines(txt))

\* A telemetry value: a number (held in tenths) or a string.
Number(tenths) == [num |-> TRUE, tenths |-> tenths, s |-> <<>>]

String(s) == [num |-> FALSE, tenths |-> 0, s |-> s]

\* int(val) if isinstance(val, (int, float)) else int(float(val)), with the
\* value 0 of the except clause; int(value), then int(float(value)), then 0
\* in _parse_devstatus_and_update, which gives the same number.
rpm_of(val) ==
  IF val.num THEN val.tenths \div 10
  ELSE IF float_of(val.s).ok THEN float_of(val.s).value \div 10
  ELSE 0

\* float(val): ok is FALSE where it raises.
float_value(val) ==
  IF val.num THEN [ok |-> TRUE, value |-> val.tenths] ELSE float_of(val.s)

\* One iteration of the loop of _parse_json_and_update.
parse_json_entry(acc, it) ==
  LET key == lower(it.key)
      val == it.value
      m == fan_key_search(key)
      rpm == rpm_of(val)
  IN  IF /\ contains(key, <<"f", "a", "n">>)
         /\ contains(key, <<"s", "p", "e", "e", "d">>)
         /\ m.ok
      THEN [acc EXCEPT !.fan_map =
              dict_set(@, int_of(m.g1), <<rpm_to_percent(rpm, FALSE), rpm>>)]
      ELSE IF /\ contains(key, <<"p", "u", "m", "p">>)
              /\ contains(key, <<"s", "p", "e", "e", "d">>)
      THEN [acc EXCEPT !.pump = <<rpm_to_percent(rpm, TRUE), rpm>>]
      ELSE IF /\ \E w \in Coolants :
                   contains(key, w \o <<" ", "t", "e", "m", "p", "e", "r", "a", "t", "u", "r", "e">>)
              /\ float_value(val).ok
      THEN [acc EXCEPT !.wtemp = float_value(val).value]
      ELSE acc

\* _parse_json_and_update up to its call of _update_ui_from_maps, on the
\* entries _iter_status_entries yields.
RECURSIVE parse_json_and_update(_)
parse_json_and_update(entries) ==
  IF entries = <<>> THEN NoReadings
  ELSE parse_json_entry(
         parse_json_and_update(SubSeq(entries, 1, Len(entries) - 1)),
         entries[Len(entries)])

\* One iteration of the loop of _parse_devstatus_and_update.
parse_devstatus_entry(acc, it) ==
  LET k == lower(it.key)
      value == it.value
      m == fan_key_search(k)
      rpm == rpm_of(value)
  IN  IF /\ contains(k, <<"f", "a", "n">>)
         /\ contains(k, <<"s", "p", "e", "e", "d">>)
      THEN IF m.ok
           THEN [acc EXCEPT !.fan_map =
                   dict_set(@, int_of(m.g1),
                            <<rpm_to_percent(rpm, FALSE), rpm>>)]
           ELSE acc
      ELSE IF /\ contains(k, <<"p", "u", "m", "p">>)
              /\ contains(k, <<"s", "p", "e", "e", "d">>)
      THEN [acc EXCEPT !.pump = <<rpm_to_percent(rpm, TRUE), rpm>>]
      ELSE IF /\ \E w \in Coolants : contains(k, w)
              /\ contains(k, <<"t", "e", "m", "p", "e", "r", "a", "t", "u", "r", "e">>)
      THEN [acc EXCEPT !.wtemp = IF float_value(value).ok
                                 THEN float_value(value).value ELSE None]
      ELSE acc

\* _parse_devstatus_and_update up to its call of _update_ui_from_maps.
RECURSIVE parse_devstatus_and_update(_)
parse_devstatus_and_update(status) ==
  IF status = <<>> THEN NoReadings
  ELSE parse_devstatus_entry(
         parse_devstatus_and_update(SubSeq(status, 1, Len(status) - 1)),
         status[Len(status)])

\* ---------------------------------------------------------------------------
\* The status read of a poll tick: the outputs of the external calls and
\* what the tick does with them.
\* ---------------------------------------------------------------------------
MaxEntries == 2
MaxLines == 2

\* Telemetry records: numeric values, numeric strings and the non-numeric
\* string "N/A".
Telemetry ==
  {[key |-> <<"F", "a", "n", " ", "1", " ", "s", "p", "e", "e", "d">>,
     value |-> Number(8000)],
   [key |-> <<"F", "a", "n", " ", "1", " ", "s", "p", "e", "e", "d">>,
     value |-> String(<<"N", "/", "A">>)],
   [key |-> <<"F", "a", "n", " ", "s", "p", "e", "e", "d", " ", "2">>,
     value |-> String(<<"1", "0", "0", "0">>)],
   [key |-> <<"P", "u", "m", "p", " ", "s", "p", "e", "e", "d">>,
     value |-> Number(25000)],
   [key |-> <<"P", "u", "m", "p", " ", "s", "p", "e", "e", "d">>,
     value |-> String(<<"N", "/", "A">>)],
   [key |-> <<"L", "i", "q", "u", "i", "d", " ", "t", "e", "m", "p", "e", "r", "a", "t", "u", "r", "e">>,
     value |-> Number(315)],
   [key |-> <<"L", "i", "q", "u", "i", "d", " ", "t", "e", "m", "p", "e", "r", "a", "t", "u", "r", "e">>,
     value |-> String(<<"N", "/", "A">>)]}

StatusData == UNION {[1..n -> Telemetry] : n \in 0..MaxEntries}

\* Lines of status text, with a colon before the value or with the value
\* followed by its unit.
TextLines ==
  {<<"F", "a", "n", " ", "1", " ", "S", "p", "e", "e", "d", ":", " ", "8", "0", "0">>,
   <<"P", "u", "m", "p", " ", "S", "p", "e", "e", "d", ":", " ", "2", "5", "0", "0">>,
   <<"W", "a", "t", "e", "r", " ", "T", "e", "m", "p", "e", "r", "a", "t", "u", "r", "e", ":", " ", "3", "1", ".", "5">>,
   <<"F", "a", "n", " ", "1", " ", "8", "0", "0", " ", "r", "p", "m">>,
   <<"F", "a", "n", " ", "s", "p", "e", "e", "d", " ", "2", " ", "1", "0", "0", "0", " ", "r", "p", "m">>,
   <<"P", "u", "m", "p", " ", "s", "p", "e", "e", "d", " ", "2", "5", "0", "0", " ", "r", "p", "m">>,
   <<"L", "i", "q", "u", "i", "d", " ", "t", "e", "m", "p", "e", "r", "a", "t", "u", "r", "e", " ", "3", "1", ".", "5", " ", "°", "C">>}

\* "Fan 1 Speed: 800\nFan 2 Speed: 1000\nPump Speed: 2500\nWater Temperature: 31.5"
sample_text ==
  <<"F", "a", "n", " ", "1", " ", "S", "p", "e", "e", "d", ":", " ", "8", "0", "0">> \o <<"\n">> \o
  <<"F", "a", "n", " ", "2", " ", "S", "p", "e", "e", "d", ":", " ", "1", "0", "0", "0">> \o <<"\n">> \o
  <<"P", "u", "m", "p", " ", "S", "p", "e", "e", "d", ":", " ", "2", "5", "0", "0">> \o <<"\n">> \o
  <<"W", "a", "t", "e", "r", " ", "T", "e", "m", "p", "e", "r", "a", "t", "u", "r", "e", ":", " ", "3", "1", ".", "5">>

\* The same readings, each followed by its unit.
unit_text ==
  <<"F", "a", "n", " ", "1", " ", "8", "0", "0", " ", "r", "p", "m">> \o <<"\n">> \o
  <<"F", "a", "n", " ", "2", " ", "1", "0", "0", "0", " ", "r", "p", "m">> \o <<"\n">> \o
  <<"P", "u", "m", "p", " ", "2", "5", "0", "0", " ", "r", "p", "m">> \o <<"\n">> \o
  <<"W", "a", "t", "e", "r", " ", "t", "e", "m", "p", "e", "r", "a", "t", "u", "r", "e", " ", "3", "1", ".", "5", " ", "°", "C">>

RECURSIVE join_lines(_)
join_lines(lines) ==
  IF lines = <<>> THEN <<>>
  ELSE IF Len(lines) = 1 THEN lines[1]
  ELSE lines[1] \o <<"\n">> \o join_lines(Tail(lines))

Texts ==
  {sample_text, unit_text}
  \cup {join_lines(ls) : ls \in UNION {[1..n -> TextLines] : n \in 0..MaxLines}}

\* What subprocess.run does in run_cmd: it raises (TimeoutExpired, OSError)
\* or returns a CompletedProcess.
CompletedProcess(returncode, stdout) ==
  [raises |-> FALSE, returncode |-> returncode, stdout |-> stdout]

Raised == [raises |-> TRUE, returncode |-> 0, stdout |-> <<>>]

\* The output of "status --json": nothing, text that is no JSON document,
\* or a document with the given status entries.
JsonOutputs ==
  {[text |-> "", data |-> <<>>], [text |-> "{", data |-> <<>>]}
  \cup {[text |-> "[...]", data |-> d] : d \in StatusData}

JsonRuns ==
  {Raised} \cup {CompletedProcess(rc, out) : rc \in {0, 1}, out \in JsonOutputs}

TextRuns ==
  {Raised} \cup {CompletedProcess(rc, out) : rc \in {0, 1}, out \in Texts}

\* run_logged: logs and hands the CompletedProcess back, whatever its
\* returncode (run_cmd is called without check=True).
run_logged(run) == run

\* A json.loads that takes text that is no document for an empty document.
json_loads_lenient(stdout) == [ok |-> TRUE, data |-> stdout.data]

\* json.loads: ok is FALSE where it raises JSONDecodeError.
json_loads(stdout) ==
  IF stdout.text = "{" THEN [ok |-> FALSE, data |-> <<>>]
  ELSE [ok |-> TRUE, data |-> stdout.data]

\* The try block of the CLI branch of update_status completes: the call
\* returns and data = json.loads(res.stdout) if res.stdout else [] is set.
json_read_completes(json_run) ==
  /\ ~run_logged(json_run).raises
  /\ run_logged(json_run).stdout.text = "" \/ json_loads(run_logged(json_run).stdout).ok

ReadResult(calls, parser, handed, readings, status_parsed) ==
  [calls |-> calls, parser |-> parser, handed |-> handed,
   readings |-> readings, status_parsed |-> status_parsed]

\* The CLI branch of update_status: the calls it makes, the parser it runs,
\* what it hands to it and what the parser gives to _update_ui_from_maps.
update_status_cli(json_run, text_run) ==
  LET res == run_logged(json_run)
      data == IF res.stdout.text = "" THEN <<>>
              ELSE json_loads(res.stdout).data
      res2 == run_logged(text_run)
  IN  IF json_read_completes(json_run)
      THEN ReadResult(<<"status --json">>, "json", data,
                      parse_json_and_update(data), TRUE)
      ELSE IF ~res2.raises
      THEN ReadResult(<<"status --json", "status">>, "text", res2.stdout,
                      parse_text_and_update(res2.stdout), TRUE)
      ELSE ReadResult(<<"status --json", "status">>, "none", <<>>,
                      NoReadings, FALSE)

\* dev.get_status() of the library backend: raises, or returns the status.
DevRuns ==
  {Raised} \cup {CompletedProcess(0, d) : d \in StatusData}

\* The library branch of update_status.
update_status_lib(dev_run) ==
  IF dev_run.raises
  THEN ReadResult(<<"get_status">>, "none", <<>>, NoReadings, FALSE)
  ELSE ReadResult(<<"get_status">>, "devstatus", dev_run.stdout,
                  parse_devstatus_and_update(dev_run.stdout), TRUE)

\* The text-mode call is made only after the JSON read has failed.
update_status_cli_call ==
  \E json_run \in JsonRuns :
    \E text_run \in IF json_read_completes(json_run) THEN {Raised}
                    ELSE TextRuns :
      /\ call = NoCall
      /\ call' = [op |-> "update_status_cli", json |-> json_run,
                  text |-> text_run,
                  result |-> update_status_cli(json_run, text_run)]
      /\ UNCHANGED gui

update_status_lib_call ==
  \E dev_run \in DevRuns :
    /\ call = NoCall
    /\ call' = [op |-> "update_status_lib", dev |-> dev_run,
                result |-> update_status_lib(dev_run)]
    /\ UNCHANGED gui

NextStatus == update_status_cli_call \/ update_status_lib_call

SpecStatus == Init /\ [][NextStatus]_vars

\* ---------------------------------------------------------------------------
\* The command dispatcher of the CLI backend: the candidate commands for a
\* channel and the loop that tries them.
\* ---------------------------------------------------------------------------
\* Slider values the workers are handed.
Duties == {0, 50, 100}

\* What running one candidate does: it succeeds, exits with a non-zero
\* status, exceeds the timeout, or cannot be started.
CmdOutcomes == {"ok", "nonzero", "timeout", "oserror"}

Command(ch, mode, p) == <<"liquidctl", "-m", description, "set", ch, mode, p>>

\* _candidate_set_cmds; index is None for all fans.
candidate_set_cmds(kind, index, percent) ==
  LET p == ToString(percent)
      channels == IF index /= None
                  THEN <<"fan" \o ToString(index), "fan " \o ToString(index)>>
                  ELSE <<"fans", "fan">>
  IN  IF kind = "fan"
      THEN <<Command(channels[1], "speed", p), Command(channels[1], "duty", p),
             Command(channels[2], "speed", p), Command(channels[2], "duty", p)>>
      ELSE IF kind = "pump"
      THEN <<Command("pump", "speed", p), Command("pump", "duty", p)>>
      ELSE <<>>

\* A run_logged that leaves the exit status unchecked.
run_logged_unchecked(outcome) == outcome \in {"timeout", "oserror"}

\* run_logged(c, check=True, timeout=timeout) raises: CalledProcessError on
\* a non-zero exit, TimeoutExpired, OSError.
run_logged_checked(outcome) == outcome /= "ok"

\* The CLI branch of _try_cmds from candidate i on; outcomes[i] is what
\* running cmds[i] does.  attempted lists the commands run, in order.
RECURSIVE try_cmds_from(_, _, _)
try_cmds_from(cmds, outcomes, i) ==
  IF i > Len(cmds) THEN [ok |-> FALSE, attempted |-> <<>>]
  ELSE IF ~run_logged_checked(outcomes[i])
  THEN [ok |-> TRUE, attempted |-> <<cmds[i]>>]
  ELSE LET rest == try_cmds_from(cmds, outcomes, i + 1)
       IN  [ok |-> rest.ok, attempted |-> <<cmds[i]>> \o rest.attempted]

try_cmds_cli(cmds, outcomes) == try_cmds_from(cmds, outcomes, 1)

\* The worker of apply_all_fan_speeds, CLI backend, for one fan.
set_fan_call ==
  \E fan_id \in 1..MaxFans, pct \in Duties :
    \E outcomes \in [1..4 -> CmdOutcomes] :
      LET cmds == candidate_set_cmds("fan", fan_id, pct)
      IN  /\ call = NoCall
          /\ call' = [op |-> "set_fan", index |-> fan_id, percent |-> pct,
                      cmds |-> cmds, outcomes |-> outcomes,
                      result |-> try_cmds_cli(cmds, outcomes)]
          /\ UNCHANGED gui

\* The worker of apply_pump_speed and probe_pump_capability, CLI backend.
set_pump_call ==
  \E pct \in Duties :
    \E outcomes \in [1..2 -> CmdOutcomes] :
      LET cmds == candidate_set_cmds("pump", None, pct)
      IN  /\ call = NoCall
          /\ call' = [op |-> "set_pump", index |-> None, percent |-> pct,
                      cmds |-> cmds, outcomes |-> outcomes,
                      result |-> try_cmds_cli(cmds, outcomes)]
          /\ UNCHANGED gui

NextDispatch == set_fan_call \/ set_pump_call

SpecDispatch == Init /\ [][NextDispatch]_vars

\* ---------------------------------------------------------------------------
\* The library backend of the dispatcher, and _try_cmds with both backends.
\* ---------------------------------------------------------------------------
\* Channels the driver's set_fixed_speed is called with.
ApiChannels == {"pump", "fan"} \cup {"fan" \o ToString(i) : i \in 1..MaxFans}

\* selected_device has no 'device' entry.
NoDevice == [present |-> FALSE, connects |-> FALSE, failing |-> {}]

\* dev.connect() raises.
Unreachable == [present |-> TRUE, connects |-> FALSE, failing |-> {}]

\* Devices of the library backend; set_fixed_speed raises for the channels
\* in failing.
LibDevices ==
  {NoDevice, Unreachable}
  \cup {[present |-> TRUE, connects |-> TRUE, failing |-> f] :
          f \in SUBSET ApiChannels}

ApiResult(ok, calls, done) == [ok |-> ok, calls |-> calls, done |-> done]

\* The per-channel fallback of _lib_set_speed for all fans: channels
\* from..count, each in its own try block.
RECURSIVE set_each_fan(_, _, _)
set_each_fan(dev, from, count) ==
  IF from > count THEN ApiResult(TRUE, <<>>, <<>>)
  ELSE LET chan == "fan" \o ToString(from)
           rest == set_each_fan(dev, from + 1, count)
       IN  ApiResult(TRUE, <<chan>> \o rest.calls,
                     (IF chan \in dev.failing THEN <<>> ELSE <<chan>>)
                       \o rest.done)

\* _lib_set_speed: its return value, the set_fixed_speed calls it makes and
\* the ones that return.  count is self.fan_count.
lib_set_speed(kind, index, dev, count) ==
  LET chan == IF kind = "pump" THEN "pump"
              ELSE IF index = None THEN "fan"
              ELSE "fan" \o ToString(index)
      each == set_each_fan(dev, 1, count)
  IN  IF ~dev.present THEN ApiResult(FALSE, <<>>, <<>>)
      ELSE IF ~dev.connects THEN ApiResult(FALSE, <<>>, <<>>)
      ELSE IF kind \notin {"pump", "fan"} THEN ApiResult(TRUE, <<>>, <<>>)
      ELSE IF chan \notin dev.failing THEN ApiResult(TRUE, <<chan>>, <<chan>>)
      ELSE IF kind = "fan" /\ index = None
      THEN ApiResult(TRUE, <<chan>> \o each.calls, each.done)
      ELSE ApiResult(FALSE, <<chan>>, <<>>)

\* re.search(r'fan\s*(\d+)', ch) on a channel name: the index, or None.
channel_index(ch) ==
  LET found == {i \in 0..(MaxFans + 1) :
                  ch \in {"fan" \o ToString(i), "fan " \o ToString(i)}}
  IN  IF found = {} THEN None ELSE CHOOSE i \in found : TRUE

\* The library branch of _try_cmds from candidate i on: the first candidate
\* with a channel it knows is handed to _lib_set_speed, and the function
\* returns True whatever that call returned.
RECURSIVE try_cmds_lib_from(_, _, _, _)
try_cmds_lib_from(cmds, dev, count, i) ==
  IF i > Len(cmds) THEN [ok |-> FALSE, api |-> ApiResult(FALSE, <<>>, <<>>)]
  ELSE LET c == cmds[i]
           ch == c[5]
       IN  IF Len(c) < 7 THEN try_cmds_lib_from(cmds, dev, count, i + 1)
           ELSE IF ch = "pump"
           THEN [ok |-> TRUE, api |-> lib_set_speed("pump", None, dev, count)]
           ELSE IF ch \in {"fans", "fan"}
           THEN [ok |-> TRUE, api |-> lib_set_speed("fan", None, dev, count)]
           ELSE IF channel_index(ch) /= None
           THEN [ok |-> TRUE,
                 api |-> lib_set_speed("fan", channel_index(ch), dev, count)]
           ELSE try_cmds_lib_from(cmds, dev, count, i + 1)

\* _try_cmds: succeeded tells whether a command run or an API call set the
\* channel.
try_cmds(use_cli, cmds, outcomes, dev, count) ==
  LET cli == try_cmds_cli(cmds, outcomes)
      lib == try_cmds_lib_from(cmds, dev, count, 1)
  IN  IF use_cli
      THEN [ok |-> cli.ok,
            succeeded |-> \E i \in 1..Len(cli.attempted) : outcomes[i] = "ok"]
      ELSE [ok |-> lib.ok, succeeded |-> lib.api.done /= <<>>]

\* The channels a duty is applied to: one fan, all fans, the pump.
Targets ==
  {<<"fan", i>> : i \in 1..MaxFans} \cup {<<"fan", None>>, <<"pump", None>>}

\* _try_cmds on the candidates of a channel, with either backend.
try_cmds_call ==
  \E use_cli \in BOOLEAN, target \in Targets :
    \E outcomes \in IF use_cli THEN [1..4 -> {"ok", "nonzero"}]
                    ELSE {[i \in 1..4 |-> "ok"]} :
      \E dev \in IF use_cli THEN {NoDevice} ELSE LibDevices :
        \E count \in IF use_cli THEN {0} ELSE 0..MaxFans :
          LET cmds == candidate_set_cmds(target[1], target[2], 50)
          IN  /\ call = NoCall
              /\ call' = [op |-> "try_cmds", use_cli |-> use_cli,
                          target |-> target, outcomes |-> outcomes,
                          dev |-> dev, count |-> count,
                          result |-> try_cmds(use_cli, cmds, outcomes, dev,
                                              count)]
              /\ UNCHANGED gui

\* The workers of the library backend call _lib_set_speed themselves.
lib_set_speed_call ==
  \E target \in Targets \ {<<"fan", None>>}, dev \in LibDevices,
     count \in 0..MaxFans :
    LET api == lib_set_speed(target[1], target[2], dev, count)
    IN  /\ call = NoCall
        /\ call' = [op |-> "lib_set_speed", use_cli |-> FALSE,
                    target |-> target, outcomes |-> <<>>,
                    dev |-> dev, count |-> count,
                    result |-> [ok |-> api.ok, succeeded |-> api.done /= <<>>]]
        /\ UNCHANGED gui

NextApplyDuty == try_cmds_call \/ lib_set_speed_call

SpecApplyDuty == Init /\ [][NextApplyDuty]_vars

\* ---------------------------------------------------------------------------
\* The configuration file.  A JSON value is a record with its type and, for
\* an object, its items (a function of the keys).
\* ---------------------------------------------------------------------------
JsonDict(items) == [type |-> "dict", items |-> items]

JsonOther(type) == [type |-> type, items |-> <<>>]

DefaultGlobal ==
  JsonDict([run_on_start |-> FALSE, start_minimized |-> FALSE,
            last_profile |-> "None", link_fans |-> FALSE,
            language |-> "English", show_graph |-> TRUE])

DefaultSafety ==
  JsonDict([enabled |-> FALSE, cpu_crit |-> 85, water_crit |-> 45,
            hysteresis |-> 5, alarm_enabled |-> FALSE])

DefaultCurves ==
  JsonDict([enabled |-> FALSE, apply_pump |-> TRUE,
            cpu |-> DefaultCpuCurve, water |-> DefaultWaterCurve])

DefaultLastSliders == JsonDict([fan_speeds |-> <<>>, pump_speed |-> 0])

\* The dict of the final return statement.
DefaultConfig ==
  [global |-> DefaultGlobal, safety |-> DefaultSafety,
   curves |-> DefaultCurves, profiles |-> JsonDict(<<>>),
   last_sliders |-> DefaultLastSliders, fan_names |-> JsonDict(<<>>),
   debug_keep |-> JsonOther("number")]

\* Values a stored file gives to "global": an object with one setting, an
\* empty object, a number, null.
StoredGlobals ==
  {JsonDict([link_fans |-> TRUE]), JsonDict(<<>>), JsonOther("number"),
   JsonOther("null")}

StoredSafety ==
  JsonDict([enabled |-> TRUE, cpu_crit |-> 80, water_crit |-> 40,
            hysteresis |-> 5, alarm_enabled |-> FALSE])

StoredKeys == {"global", "safety", "last_sliders"}

\* JSON objects a file may hold: any of the stored keys, present or not.
StoredObjects ==
  UNION {{[k \in keys |-> IF k = "global" THEN g
                          ELSE IF k = "safety" THEN StoredSafety
                          ELSE DefaultLastSliders] : g \in StoredGlobals} :
           keys \in SUBSET StoredKeys}

\* A path: no file, a file open() fails on, a file json.load fails on, or a
\* file holding a JSON value.
Files ==
  {[state |-> s, value |-> JsonOther("null")] :
     s \in {"missing", "unreadable", "invalid"}}
  \cup {[state |-> "json", value |-> v] :
          v \in {JsonOther("list"), JsonOther("number")}
                \cup {JsonDict(d) : d \in StoredObjects}}

\* os.path.exists
exists(file) == file.state /= "missing"

\* dict.setdefault, as a statement
setdefault(d, k, v) ==
  IF k \in DOMAIN d THEN d
  ELSE [x \in DOMAIN d \cup {k} |-> IF x = k THEN v ELSE d[x]]

\* g.setdefault(...) for the six settings of "global".
global_defaults(g) ==
  LET g1 == setdefault(g, "run_on_start", FALSE)
      g2 == setdefault(g1, "start_minimized", FALSE)
      g3 == setdefault(g2, "last_profile", "None")
      g4 == setdefault(g3, "link_fans", FALSE)
      g5 == setdefault(g4, "language", "English")
  IN  setdefault(g5, "show_graph", TRUE)

\* A load that completes only the "global" section of a stored object.
with_defaults_global_only(data) ==
  LET d1 == setdefault(data, "global", JsonDict(<<>>))
  IN  [d1 EXCEPT !["global"] = JsonDict(global_defaults(@.items))]

\* The body of "if isinstance(data, dict)" up to its return.
with_defaults(data) ==
  LET d1 == setdefault(data, "global", JsonDict(<<>>))
      d2 == [d1 EXCEPT !["global"] = JsonDict(global_defaults(@.items))]
      d3 == setdefault(d2, "safety", DefaultSafety)
      d4 == setdefault(d3, "curves", DefaultCurves)
      d5 == setdefault(d4, "profiles", JsonDict(<<>>))
      d6 == setdefault(d5, "last_sliders", DefaultLastSliders)
      d7 == setdefault(d6, "fan_names", JsonDict(<<>>))
  IN  setdefault(d7, "debug_keep", JsonOther("number"))

\* load_json_config: which return statement is reached, and what it
\* returns; g.setdefault raises when "global" holds no object.
load_json_config(config, legacy) ==
  LET file == IF exists(config) THEN config
              ELSE IF exists(legacy) THEN legacy ELSE config
      data == file.value
      loaded == /\ exists(file)
                /\ file.state = "json"
                /\ data.type = "dict"
                /\ setdefault(data.items, "global",
                              JsonDict(<<>>))["global"].type = "dict"
  IN  IF loaded THEN [returned |-> "data", conf |-> with_defaults(data.items)]
      ELSE [returned |-> "defaults", conf |-> DefaultConfig]

load_json_config_call ==
  \E config \in Files, legacy \in Files :
    /\ call = NoCall
    /\ call' = [op |-> "load_json_config", config |-> config,
                legacy |-> legacy,
                result |-> load_json_config(config, legacy)]
    /\ UNCHANGED gui

NextConfig == load_json_config_call

SpecConfig == Init /\ [][NextConfig]_vars

\* ---------------------------------------------------------------------------
\* The device and the apply threads.  A worker is the thread started by
\* apply_all_fan_speeds: it holds the list speeds taken from the sliders on
\* the main thread and walks through it, one command per fan.  A command
\* that is run sets the duty of the channel on the device it names.
\* ---------------------------------------------------------------------------
MaxWorkers == 2

\* What a status read of device d reports when the coolant is at w: each
\* fan and the pump turn at the speed of their duty.
device_status(d, w) ==
  [parsed |-> TRUE,
   fans |-> [i \in 1..MaxFans |-> percent_to_rpm(device_duty[d].fans[i], FALSE)],
   pump |-> IF have_pump THEN percent_to_rpm(device_duty[d].pump, TRUE)
            ELSE None,
   water |-> w]

\* A poll tick on the selected device.
update_status_device ==
  \E ct \in CpuTemps, w \in WaterTemps :
    update_status_with(ct, device_status(selected_device, w))

Worker(speeds, d) ==
  [speeds |-> speeds, pc |-> 1, dispatched_for |-> d, sent_to |-> <<>>]

\* fan_apply_timer fires: speeds is read from the sliders and the thread is
\* started.
apply_all_fan_speeds_thread ==
  /\ fan_timer
  /\ Len(workers) < MaxWorkers
  /\ fan_timer' = FALSE
  /\ workers' = Append(workers, Worker(fan_sliders, selected_device))
  /\ ev' = [NoEvent EXCEPT !.sent_fans = fan_sliders]
  /\ UNCHANGED <<fan_count, fan_sliders, fan_labels, pump_slider,
                 pump_label, user_set_fan_speeds, user_set_pump_speed,
                 boost_active, preboost, last_water_temp, safety, curves,
                 have_pump, pump_supported, link_fans, pump_timer, now, call,
                 selected_device, device_duty>>

\* One iteration of the loop of a worker: _candidate_set_cmds reads
\* self.selected_device when the command is built (_lib_set_speed reads it
\* when it is called), and the command sets the fan's duty on that device.
worker_step ==
  \E w \in 1..Len(workers) :
    LET fan_id == workers[w].pc
        pct == workers[w].speeds[fan_id]
    IN  /\ fan_id <= Len(workers[w].speeds)
        /\ device_duty' =
             [device_duty EXCEPT ![selected_device].fans[fan_id] = pct]
        /\ workers' = [workers EXCEPT
                         ![w].pc = fan_id + 1,
                         ![w].sent_to = Append(@, selected_device)]
        /\ ev' = NoEvent
        /\ UNCHANGED <<fan_count, fan_sliders, fan_labels, pump_slider,
                       pump_label, user_set_fan_speeds, user_set_pump_speed,
                       boost_active, preboost, last_water_temp, safety,
                       curves, have_pump, pump_supported, link_fans,
                       fan_timer, pump_timer, now, call, selected_device>>

\* The body of update_status on the widgets s.
status_tick(s, ct, st) ==
  LET s1 == IF st.parsed
            THEN update_ui_from_maps(s, parsed_fan_map(st.fans),
                                     parsed_pump(st.pump), st.water)
            ELSE s
      s2 == IF st.parsed
            THEN check_safety_boost(s1, ct, s1.last_water_temp)
            ELSE s1
  IN  IF curve_controller_runs(s2) THEN curve_controller(s2, ct) ELSE s2

\* probe_pump_capability on device d: the probe sets the pump to 50 %.
probed(d) ==
  IF have_pump THEN [device_duty[d] EXCEPT !.pump = 50] ELSE device_duty[d]

\* The user picks device d in the combo box; d has the fans and the pump of
\* the device selected before.  detect_features_from_status rebuilds the
\* slider rows, initialize_device probes the pump, update_status runs.
select_device ==
  \E d \in Devices \ {selected_device}, ct \in CpuTemps, w \in WaterTemps :
    LET st == [parsed |-> TRUE,
               fans |-> [i \in 1..MaxFans |->
                           percent_to_rpm(device_duty[d].fans[i], FALSE)],
               pump |-> IF have_pump
                        THEN percent_to_rpm(probed(d).pump, TRUE) ELSE None,
               water |-> w]
    IN  /\ selected_device' = d
        /\ device_duty' = [device_duty EXCEPT ![d] = probed(d)]
        /\ Commit(status_tick(
                    add_fan_controls([Widgets EXCEPT !.fan_count = MaxFans],
                                     MaxFans), ct, st))
        /\ ev' = NoEvent
        /\ UNCHANGED <<safety, curves, have_pump, pump_supported, link_fans,
                       now, call, workers>>

\* User changes, dispatches, workers and device selection.
NextThreads ==
  \/ TrayAllFans
  \/ apply_all_fan_speeds_thread
  \/ worker_step
  \/ select_device

SpecThreads == Init /\ [][NextThreads]_vars

\* User changes, dispatches and workers on one device.
NextRace ==
  \/ UserFanSlider
  \/ TrayAllFans
  \/ apply_all_fan_speeds_thread
  \/ worker_step

SpecRace == Init /\ [][NextRace]_vars

\* Polls of the device, dispatches, workers and the clock.
NextDevice ==
  \/ update_status_device
  \/ apply_all_fan_speeds_thread
  \/ worker_step
  \/ AdvanceTime

SpecDevice == Init /\ [][NextDevice]_vars

\* ================================================================ claims
\* The coolant temperature the safety check of a tick reads is
\* self._last_water_temp as the status read of that tick left it, that is
\* last_water_temp' in a poll step.

\* C1: on every poll tick, whatever the outcome of the status read, if
\* safety is enabled, the controller is Normal and the CPU temperature is
\* known and >= cpu_crit or the coolant temperature is known and
\* >= water_crit, the controller is Boosted at the end of the tick.
C1_OverThresholdBoosts ==
  [][\A ct \in CpuTemps, st \in StatusOutcomes :
       ( /\ safety.enabled /\ ~boost_active
         /\ \/ ct # None /\ ct >= safety.cpu_crit
            \/ last_water_temp' # None /\ last_water_temp' >= safety.water_crit
         /\ update_status_with(ct, st) )
       => boost_active']_vars

\* C2: after the tick that enters Boosted the snapshot is held and both
\* apply timers are pending (the pump's when the pump is controllable), and
\* the timer that fires next hands 100 to the device for every fan, and
\* for the pump, whatever the sliders and user records were before.
C2_BoostCommandsFull ==
  [][ev.entered =>
       /\ preboost # <<>>
       /\ fan_timer
       /\ PumpControllable => pump_timer
       /\ apply_all_fan_speeds =>
            \A i \in 1..fan_count : ev'.sent_fans[i] = 100
       /\ apply_pump_speed /\ PumpControllable => ev'.sent_pump = 100]_vars

\* C3: with safety enabled the controller leaves Boosted only in a poll
\* tick, and only in one whose CPU temperature is unknown or
\* <= cpu_crit - hysteresis and whose coolant temperature is unknown or
\* <= water_crit - hysteresis: a tick with a known temperature above its
\* threshold minus the hysteresis leaves it Boosted.
C3_StaysBoostedUntilCool ==
  [][(boost_active /\ safety.enabled /\ ~boost_active') =>
       /\ \/ last_water_temp' = None
          \/ last_water_temp' <= safety.water_crit - safety.hysteresis
       /\ \A ct \in CpuTemps :
            (ct # None /\ ct > safety.cpu_crit - safety.hysteresis) =>
              \A st \in StatusOutcomes : ~update_status_with(ct, st)
       /\ update_status]_vars

\* A tick has just left Boosted with safety enabled.
C3_Witness == ev.left /\ safety.enabled

\* C4: with safety enabled and a known CPU temperature ct, a tick with
\* ct = cpu_crit enters Boosted; a tick with cpu_crit - hysteresis < ct <
\* cpu_crit keeps it Boosted; a tick with ct <= cpu_crit - hysteresis and
\* the coolant unknown or <= water_crit - hysteresis returns it to Normal
\* with every fan slider and the pump slider equal to the snapshot.
C4_HysteresisScenario ==
  [][\A ct \in CpuTemps \ {None}, st \in StatusOutcomes :
       (safety.enabled /\ update_status_with(ct, st)) =>
         /\ (~boost_active /\ ct = safety.cpu_crit) => boost_active'
         /\ ( /\ boost_active
              /\ safety.cpu_crit - safety.hysteresis < ct
              /\ ct < safety.cpu_crit ) => boost_active'
         /\ ( /\ boost_active
              /\ ct <= safety.cpu_crit - safety.hysteresis
              /\ \/ last_water_temp' = None
                 \/ last_water_temp' <= safety.water_crit - safety.hysteresis )
            => /\ ~boost_active'
               /\ fan_sliders' = preboost[1].fans
               /\ pump_slider' = preboost[1].pump]_vars

\* C5: a snapshot exists exactly when the controller is Boosted; it is not
\* modified from one Boosted state to the next, so it is the one captured
\* on entering, and it is gone once the controller is Normal again.
C5_SnapshotLifetime ==
  /\ [](boost_active <=> preboost # <<>>)
  /\ [][(boost_active /\ boost_active') => preboost' = preboost]_vars

\* Boosted, with the snapshot still held some step after the entering tick.
C5_Witness == boost_active /\ preboost # <<>> /\ ~ev.entered

\* C6: the controller is never Boosted while safety is disabled (disabling
\* safety leaves Boosted at once).
C6_NeverBoostedWhenDisabled == ~safety.enabled => ~boost_active

\* C7: in every Boosted state every fan slider is at 100, and so is the
\* pump slider when the pump is controllable.
C7_BoostedSlidersFull ==
  boost_active =>
    /\ \A i \in 1..Len(fan_sliders) : fan_sliders[i] = 100
    /\ PumpControllable => pump_slider = 100

\* C8: a poll tick runs the curve controller only with curves enabled and
\* the controller not Boosted at that point of the tick, so never in a tick
\* that ends Boosted.
C8_CurveOnlyWhenNormal == ev.curve_ran => (curves.enabled /\ ~boost_active)

\* A tick that left Boosted and then ran the curve controller.
C8_Witness == ev.curve_ran /\ ev.left

\* C9: in a tick that only refreshes the UI (safety and curves disabled), a
\* channel the status reports and whose user record is within the
\* protection window keeps its slider value.
C9_WindowKeepsSlider ==
  [][\A ct \in CpuTemps, st \in StatusOutcomes :
       ( /\ st.parsed /\ ~safety.enabled /\ ~boost_active /\ ~curves.enabled
         /\ update_status_with(ct, st) )
       => /\ \A i \in DOMAIN st.fans :
               ( /\ i <= Len(fan_sliders) /\ i <= Len(fan_sliders')
                 /\ user_set_fan_speeds[i].pct # None
                 /\ now - user_set_fan_speeds[i].ts <= Window )
               => fan_sliders'[i] = fan_sliders[i]
          /\ ( /\ st.pump # None
               /\ user_set_pump_speed.pct # None
               /\ now - user_set_pump_speed.ts <= Window )
             => pump_slider' = pump_slider]_vars

\* C10: every number shown in a percent label and every duty handed to the
\* device is a multiple of 10.
C10_DutiesQuantized ==
  /\ \A i \in 1..Len(fan_labels) : fan_labels[i] % 10 = 0
  /\ pump_label % 10 = 0
  /\ \A i \in 1..Len(ev.sent_fans) : ev.sent_fans[i] % 10 = 0
  /\ ev.sent_pump # None => ev.sent_pump % 10 = 0

\* C11: for every duty of the grid 20, 30, ..., 100, rpm_to_percent of
\* percent_to_rpm of the duty is the duty, for the fans and for the pump.
C11_RoundTrip ==
  (call.op = "round_trip" /\ call.arg \in {10 * k : k \in 2..10})
    => call.result = call.arg

\* The pump duty 50 has made the round trip.
C11_Witness == call.op = "round_trip" /\ call.arg = 50 /\ call.is_pump

\* C12: percent_to_rpm returns min_rpm for every duty <= 20 and max_rpm for
\* every duty >= 100; rpm_to_percent returns 20 for every rpm <= min_rpm
\* and 100 for every rpm >= max_rpm; for the fans and for the pump.
C12_Saturation ==
  /\ call.op = "percent_to_rpm" =>
       /\ call.arg <= 20 => call.result = min_rpm(call.is_pump)
       /\ call.arg >= 100 => call.result = max_rpm(call.is_pump)
  /\ call.op = "rpm_to_percent" =>
       /\ call.arg <= min_rpm(call.is_pump) => call.result = 20
       /\ call.arg >= max_rpm(call.is_pump) => call.result = 100

\* percent_to_rpm has been called with the duty 0.
C12_Witness == call.op = "percent_to_rpm" /\ call.arg = 0

\* C13: both converters are monotonic: the result for an argument is at
\* most the result for the next integer argument (hence for every larger
\* one), for the fans and for the pump.
C13_Monotonic ==
  /\ call.op = "percent_to_rpm" =>
       call.result <= percent_to_rpm(call.arg + 1, call.is_pump)
  /\ call.op = "rpm_to_percent" =>
       call.result <= rpm_to_percent(call.arg + 1, call.is_pump)

\* rpm_to_percent has been called inside the fan range.
C13_Witness ==
  call.op = "rpm_to_percent" /\ call.arg = 1100 /\ ~call.is_pump

\* C14 (as stated): for the configured control points (t1,p1), (t2,p2),
\* (t3,p3), whatever their temperatures, the curve value is p1 for every
\* temperature <= t1, p3 for every temperature >= t3 and p2 at t2.
C14_AnyPoints ==
  call.op = "curve_value" =>
    /\ call.arg <= call.points[1][1] => call.result = call.points[1][2]
    /\ call.arg >= call.points[3][1] => call.result = call.points[3][2]
    /\ call.arg = call.points[2][1] => call.result = call.points[2][2]

\* C14 (amended): for control points configured with strictly ascending
\* temperatures t1 < t2 < t3, the curve value is p1 for every temperature
\* <= t1, p3 for every temperature >= t3 and p2 at t2.
C14_AscendingPoints ==
  (/\ call.op = "curve_value"
   /\ call.points[1][1] < call.points[2][1]
   /\ call.points[2][1] < call.points[3][1]) =>
    /\ call.arg <= call.points[1][1] => call.result = call.points[1][2]
    /\ call.arg >= call.points[3][1] => call.result = call.points[3][2]
    /\ call.arg = call.points[2][1] => call.result = call.points[2][2]

C14_Witness ==
  /\ call.op = "curve_value"
  /\ call.points = << <<30, 20>>, <<40, 100>>, <<50, 60>> >>
  /\ call.arg = 25
  /\ call.result = 20

\* C15: when the JSON-mode status call returns output that is not valid
\* JSON, the tick makes the text-mode status call and hands that call's
\* output to the text parser.
C15_InvalidJsonFallsBack ==
  (/\ call.op = "update_status_cli"
   /\ ~call.json.raises
   /\ call.json.stdout.text = "{") =>
    /\ call.result.calls = <<"status --json", "status">>
    /\ ~call.text.raises =>
         /\ call.result.parser = "text"
         /\ call.result.handed = call.text.stdout
         /\ call.result.readings = parse_text_and_update(call.text.stdout)

C15_Witness ==
  /\ call.op = "update_status_cli"
  /\ call.json = CompletedProcess(0, [text |-> "{", data |-> <<>>])
  /\ call.text = CompletedProcess(0, sample_text)
  /\ call.result.parser = "text"
  /\ call.result.handed = sample_text

\* C16: when the JSON-mode status call exits with a non-zero status and
\* prints nothing on stdout, the tick makes the text-mode status call and
\* hands that call's output to the text parser.
C16_NonZeroExitFallsBack ==
  (/\ call.op = "update_status_cli"
   /\ ~call.json.raises
   /\ call.json.returncode /= 0
   /\ call.json.stdout.text = "") =>
    /\ call.result.calls = <<"status --json", "status">>
    /\ call.result.parser \in {"text", "none"}

\* C17: parsing the text "Fan 1 Speed: 800", "Fan 2 Speed: 1000",
\* "Pump Speed: 2500", "Water Temperature: 31.5" yields the fans
\* {1: (50, 800), 2: (60, 1000)}, the pump (90, 2500) and the water
\* temperature 31.5.
C17_SampleTextReadings ==
  (/\ call.op = "update_status_cli"
   /\ call.result.parser = "text"
   /\ call.result.handed = sample_text) =>
    call.result.readings = [fan_map |-> <<<<50, 800>>, <<60, 1000>>>>,
                            pump |-> <<90, 2500>>,
                            wtemp |-> 315]

\* C18: a fan or pump telemetry record whose RPM value is not numeric is
\* excluded from the result: when no record of fan 1 has a numeric value,
\* fan_map has no entry for fan 1, and when no pump record has a numeric
\* value, there is no pump reading.
C18_NonNumericExcluded ==
  call.op \in {"update_status_cli", "update_status_lib"} =>
    (call.result.parser \in {"json", "devstatus"} =>
       LET data == call.result.handed
           fan1 == {i \in 1..Len(data) :
                      lower(data[i].key) = <<"f", "a", "n", " ", "1", " ", "s", "p", "e", "e", "d">>}
           pump == {i \in 1..Len(data) :
                      lower(data[i].key) = <<"p", "u", "m", "p", " ", "s", "p", "e", "e", "d">>}
       IN  /\ (\A i \in fan1 : ~float_value(data[i].value).ok) =>
                1 \notin DOMAIN call.result.readings.fan_map
           /\ (\A i \in pump : ~float_value(data[i].value).ok) =>
                call.result.readings.pump = <<>>)

\* C19: the candidates are tried strictly in list order, a failed candidate
\* (non-zero exit, timeout, any exception) is followed by the next one, and
\* the first success returns true with no later candidate attempted: the
\* commands run are exactly the candidates up to the first one that
\* succeeds, and the result is true iff one does.
C19_FirstSuccessStops ==
  call.op \in {"set_fan", "set_pump"} =>
    LET n == Len(call.result.attempted)
        oks == {i \in 1..Len(call.cmds) : call.outcomes[i] = "ok"}
    IN  /\ n <= Len(call.cmds)
        /\ call.result.attempted = SubSeq(call.cmds, 1, n)
        /\ call.result.ok = (oks /= {})
        /\ \A i \in 1..Len(call.cmds) :
             (i <= n) = (\A j \in 1..(i - 1) : j \notin oks)

C19_Witness ==
  /\ call.op = "set_fan"
  /\ call.outcomes = <<"nonzero", "timeout", "ok", "ok">>
  /\ call.result.ok
  /\ Len(call.result.attempted) = 3

\* C20: for a fan with a known index N the candidate list is 'fanN' and
\* 'fan N', each under 'speed' then 'duty', followed by 'fans' and 'fan',
\* each under both verbs.
C20_IndexedThenAggregate ==
  call.op = "set_fan" =>
    LET p == ToString(call.percent)
        n == ToString(call.index)
    IN  call.cmds =
          <<Command("fan" \o n, "speed", p), Command("fan" \o n, "duty", p),
            Command("fan " \o n, "speed", p), Command("fan " \o n, "duty", p),
            Command("fans", "speed", p), Command("fans", "duty", p),
            Command("fan", "speed", p), Command("fan", "duty", p)>>

C22_DefaultsOnBadFile ==
  call.op = "load_json_config" =>
    LET file == IF call.config.state /= "missing" THEN call.config
                ELSE call.legacy
    IN  /\ (file.state /= "json" \/ file.value.type /= "dict") =>
             /\ call.result.returned = "defaults"
             /\ call.result.conf = DefaultConfig
        /\ {"global", "safety", "curves", "profiles", "last_sliders",
            "fan_names"} \subseteq DOMAIN call.result.conf

C22_Witness ==
  /\ call.op = "load_json_config"
  /\ call.config.state = "invalid"
  /\ call.legacy.state = "json"
  /\ call.legacy.value.type = "dict"
  /\ call.result.returned = "defaults"

\* Worker w has run every command of its batch.
finished(w) == workers[w].pc > Len(workers[w].speeds)

\* C24: two batches of fan duties dispatched one after the other for the
\* same device: once both workers have finished, every fan of the device is
\* at the duty of the later batch.
C24_LaterDispatchWins ==
  (/\ Len(workers) = 2
   /\ finished(1)
   /\ finished(2))
  => \A i \in 1..MaxFans :
       device_duty[selected_device].fans[i] = workers[2].speeds[i]

\* C25: every command of a worker goes to the device that was selected
\* when the worker was dispatched, whatever the main thread did since.
C25_SendsToDispatchDevice ==
  \A w \in 1..Len(workers) :
    \A k \in 1..Len(workers[w].sent_to) :
      workers[w].sent_to[k] = workers[w].dispatched_for

\* The device still runs every fan at the boosted duty while the sliders
\* hold other duties and no boost is active: duties were restored and have
\* not reached the device.
restore_pending ==
  /\ ~boost_active
  /\ preboost = <<>>
  /\ \A i \in 1..MaxFans : device_duty[selected_device].fans[i] = 100
  /\ \E i \in 1..fan_count : fan_sliders[i] # 100

\* C23: a tick that enters the boost while restored duties have not reached
\* the device takes the restored (pre-boost) duties as its snapshot.
C23_ReentrySnapshot ==
  [][(restore_pending /\ boost_active')
       => preboost'[1].fans = fan_sliders]_vars

\* C27: for control points t1 <= t2 <= t3 with a degenerate segment
\* (t1 = t2 or t2 = t3), the curve value at the temperature of that segment
\* is the duty of the later of its two points.
C27_DegenerateUpperDuty ==
  (/\ call.op = "curve_value"
   /\ call.points[1][1] <= call.points[2][1]
   /\ call.points[2][1] <= call.points[3][1]) =>
    \A k \in 1..2 :
      (call.points[k][1] = call.points[k + 1][1]
       /\ call.arg = call.points[k][1])
        => call.result = call.points[k + 1][2]

\* The largest of the curve values at the known temperatures, within 0..100;
\* 0 when no temperature is known.
known_target(ct, wt) ==
  LET vals == (IF ct # None THEN {curve_value(curves.cpu, ct)} ELSE {})
              \cup (IF wt # None THEN {curve_value(curves.water, wt)} ELSE {})
      top == IF vals = {} THEN 0
             ELSE CHOOSE v \in vals : \A u \in vals : u <= v
  IN  IF top < 0 THEN 0 ELSE IF top > 100 THEN 100 ELSE top

\* C26: a tick that runs the curve controller sets every fan slider to the
\* quantised maximum of the curve values at the known temperatures and
\* starts the fan apply timer; it sets the pump slider to that value and
\* starts the pump apply timer if the pump is controllable and apply_pump
\* is set, and otherwise leaves the pump's record and timer alone.
C26_CurveTarget ==
  [][\A ct \in CpuTemps, st \in StatusOutcomes :
       (update_status_with(ct, st) /\ ev'.curve_ran) =>
         LET pct == Round10(known_target(ct, last_water_temp'))
         IN  /\ \A i \in 1..Len(fan_sliders') : fan_sliders'[i] = pct
             /\ fan_timer'
             /\ IF PumpControllable /\ curves.apply_pump
                THEN pump_slider' = pct /\ pump_timer'
                ELSE ~ev'.left =>
                       /\ user_set_pump_speed' = user_set_pump_speed
                       /\ pump_timer' = pump_timer]_vars

\* A tick with the CPU temperature unknown and the coolant at 38 has run the
\* curve controller: target 52, fans and controllable pump at 50.
C26_Witness ==
  /\ ev.curve_ran
  /\ last_water_temp = 38
  /\ PumpControllable /\ curves.apply_pump
  /\ \A i \in 1..Len(fan_sliders) : fan_sliders[i] = 50
  /\ pump_slider = 50

\* C28: with curves enabled and the controller not Boosted, a tick with the
\* CPU and the coolant temperature both unknown sets every fan slider to 0
\* and starts the fan apply timer; with a controllable pump and apply_pump
\* set it sets the pump slider to 0 and starts the pump apply timer, and
\* the duty that timer sends (the recorded pump duty) is 0.
C28_UnknownTempsZero ==
  [][\A st \in StatusOutcomes :
       ( /\ curves.enabled /\ ~boost_active
         /\ update_status_with(None, st)
         /\ last_water_temp' = None )
       => /\ \A i \in 1..Len(fan_sliders') : fan_sliders'[i] = 0
          /\ fan_timer'
          /\ (PumpControllable /\ curves.apply_pump)
               => /\ pump_slider' = 0
                  /\ pump_timer'
                  /\ user_set_pump_speed'.pct = 0]_vars

\* C29: a tick that leaves Boosted with curves enabled runs the curve
\* controller, so the fan sliders end at the quantised curve target with
\* the fan apply timer started; a tick that enters Boosted does not run
\* the curve controller and ends with every fan slider at 100.
C29_CurveAfterRestore ==
  [][\A ct \in CpuTemps, st \in StatusOutcomes :
       update_status_with(ct, st) =>
         /\ (ev'.left /\ curves.enabled) =>
               /\ ev'.curve_ran
               /\ \A i \in 1..Len(fan_sliders') :
                    fan_sliders'[i] =
                      Round10(known_target(ct, last_water_temp'))
               /\ fan_timer'
         /\ ev'.entered =>
               /\ ~ev'.curve_ran
               /\ \A i \in 1..Len(fan_sliders') : fan_sliders'[i] = 100]_vars

\* A tick with the coolant at 38 has left Boosted and the curve controller
\* has set the fans to 50.
C29_Witness ==
  /\ ev.left /\ ev.curve_ran
  /\ last_water_temp = 38
  /\ \A i \in 1..Len(fan_sliders) : fan_sliders[i] = 50

====
